---- MODULE Spec2Model ----
(***************************************************************************)
(* markdown-share (src/main.js): a client-side editor that keeps the live  *)
(* buffer, one localStorage entry and the URL fragment in step.            *)
(*                                                                         *)
(* Texts are sequences of one-character strings, byte strings are          *)
(* sequences of 0..255, tokens are sequences of one-character strings.     *)
(***************************************************************************)
EXTENDS Integers, Sequences, FiniteSets, TLC

-----------------------------------------------------------------------------
(* Bounds of the model *)

\* change notifications produced by the user over a run
MaxEdits == 2
\* external navigations (back/forward, pasted link) over a run
MaxNavs == 1
\* longest byte sequence handed to the token codec on its own
MaxBytes == 3
\* longest snapshot handed to the title derivation on its own
MaxTitleText == 4

\* texts the user types or a shared link carries: the empty text, a
\* whitespace-only text, and two texts with a non-whitespace character, one of
\* them with leading whitespace
Texts == {<<>>, <<" ">>, <<"a">>, <<" ", "b">>}

-----------------------------------------------------------------------------
(* Byte <-> token codec: toBase64Url / fromBase64Url *)

B64Alphabet ==
  <<"A","B","C","D","E","F","G","H","I","J","K","L","M","N","O","P",
    "Q","R","S","T","U","V","W","X","Y","Z","a","b","c","d","e","f",
    "g","h","i","j","k","l","m","n","o","p","q","r","s","t","u","v",
    "w","x","y","z","0","1","2","3","4","5","6","7","8","9","+","/">>

B64Chars == {B64Alphabet[i] : i \in 1..64}

\* value 0..63 of an alphabet character
B64Value(c) == (CHOOSE i \in 1..64 : B64Alphabet[i] = c) - 1

\* btoa: standard base64 with '=' padding of a binary string (char codes = bytes)
btoa(bin) ==
  LET n      == Len(bin)
      groups == (n + 2) \div 3
      byteAt(i) == IF i <= n THEN bin[i] ELSE 0
      charAt(k) ==
        LET g == (k - 1) \div 4
            j == (k - 1) % 4
            v == byteAt(3*g + 1) * 65536 + byteAt(3*g + 2) * 256 + byteAt(3*g + 3)
            sextet == IF j = 0 THEN v \div 262144
                      ELSE IF j = 1 THEN (v \div 4096) % 64
                      ELSE IF j = 2 THEN (v \div 64) % 64
                      ELSE v % 64
        IN  IF (j = 2 /\ 3*g + 2 > n) \/ (j = 3 /\ 3*g + 3 > n)
            THEN "="
            ELSE B64Alphabet[sextet + 1]
  IN  [k \in 1..(4 * groups) |-> charAt(k)]

\* str.replace(/from/g, to) for a one-character pattern
ReplaceAll(str, from, to) ==
  [i \in 1..Len(str) |-> IF str[i] = from THEN to ELSE str[i]]

\* str.replace(/=+$/, '')
RECURSIVE StripPadding(_)
StripPadding(str) ==
  IF Len(str) > 0 /\ str[Len(str)] = "="
  THEN StripPadding(SubSeq(str, 1, Len(str) - 1))
  ELSE str

toBase64Url(u8) ==
  StripPadding(ReplaceAll(ReplaceAll(btoa(u8), "+", "-"), "/", "_"))

\* a thrown exception, as the value of a call
Thrown == [ok |-> FALSE, val |-> <<>>]
Returned(v) == [ok |-> TRUE, val |-> v]

\* atob: forgiving-base64 decode; throws on a bad character or impossible length
atob(data) ==
  LET n  == Len(data)
      d1 == IF n % 4 = 0 /\ n >= 1 /\ data[n] = "="
            THEN IF n >= 2 /\ data[n - 1] = "="
                 THEN SubSeq(data, 1, n - 2)
                 ELSE SubSeq(data, 1, n - 1)
            ELSE data
      m  == Len(d1)
  IN  IF m % 4 = 1 THEN Thrown
      ELSE IF \E i \in 1..m : d1[i] \notin B64Chars THEN Thrown
      ELSE LET nbytes == (6 * m) \div 8
               byteAt(i) ==
                 LET o == 8 * (i - 1)
                     q == o \div 6
                     r == o % 6
                     combined == B64Value(d1[q + 1]) * 64 + B64Value(d1[q + 2])
                 IN  (combined \div (2 ^ (4 - r))) % 256
           IN  Returned([i \in 1..nbytes |-> byteAt(i)])

Repeat(c, k) == [i \in 1..k |-> c]

\* the decoder without the url alphabet mapped back
fromBase64UrlNoMap(str) ==
  LET pad    == Len(str) % 4
      padded == IF pad # 0 THEN str \o Repeat("=", 4 - pad) ELSE str
  IN  atob(padded)

fromBase64Url(str) ==
  LET base64 == ReplaceAll(ReplaceAll(str, "-", "+"), "_", "/")
      pad    == Len(base64) % 4
      padded == IF pad # 0 THEN base64 \o Repeat("=", 4 - pad) ELSE base64
  IN  atob(padded)

-----------------------------------------------------------------------------
(* Text <-> compressed bytes: TextEncoder/TextDecoder and the platform's   *)
(* deflate-raw streams                                                     *)

\* characters of codes 32..126 in order ("grave" stands for the character of
\* code 96)
AsciiPrintable ==
  <<" ","!","\"","#","$","%","&","'","(",")","*","+",",","-",".","/",
    "0","1","2","3","4","5","6","7","8","9",":",";","<","=",">","?",
    "@","A","B","C","D","E","F","G","H","I","J","K","L","M","N","O",
    "P","Q","R","S","T","U","V","W","X","Y","Z","[","\\","]","^","_",
    "grave","a","b","c","d","e","f","g","h","i","j","k","l","m","n","o",
    "p","q","r","s","t","u","v","w","x","y","z","{","|","}","~">>

\* what TextDecoder puts for a byte sequence that is no character of the model
ReplacementChar == "U+FFFD"

\* new TextEncoder().encode(string): UTF-8 of ASCII text
TextEncode(string) ==
  [i \in 1..Len(string) |->
     IF string[i] = "\n" THEN 10
     ELSE 31 + (CHOOSE k \in 1..95 : AsciiPrintable[k] = string[i])]

\* new TextDecoder().decode(buffer): never throws (fatal is off)
TextDecode(buffer) ==
  [i \in 1..Len(buffer) |->
     IF buffer[i] = 10 THEN "\n"
     ELSE IF buffer[i] \in 32..126 THEN AsciiPrintable[buffer[i] - 31]
     ELSE ReplacementChar]

\* CompressionStream('deflate-raw'): the output is one final stored block of
\* RFC 1951 (BFINAL=1, BTYPE=00, LEN, NLEN, the bytes), a stream every
\* deflate-raw reader accepts
Deflate(bytes) ==
  LET n == Len(bytes)
  IN  <<1, n % 256, n \div 256, 255 - (n % 256), 255 - (n \div 256)>> \o bytes

\* DecompressionStream('deflate-raw'): the stream errors on a malformed or
\* truncated block and on data after the final block
Inflate(bytes) ==
  IF /\ Len(bytes) >= 5
     /\ bytes[1] = 1
     /\ bytes[4] = 255 - bytes[2]
     /\ bytes[5] = 255 - bytes[3]
     /\ Len(bytes) = 5 + bytes[2] + 256 * bytes[3]
  THEN Returned(SubSeq(bytes, 6, Len(bytes)))
  ELSE Thrown

\* let initialContent = "# Hello\n\nWrite something..."
DefaultDoc ==
  <<"#"," ","H","e","l","l","o","\n","\n","W","r","i","t","e"," ",
    "s","o","m","e","t","h","i","n","g",".",".",".">>

\* tokens a link can carry that this program did not write
BadAlphabetToken == <<"!", "!">>
BadLengthToken   == <<"A", "A", "A", "A", "A">>
BadPayloadToken  == <<"A", "A", "A", "A">>
ForeignTokens == {BadAlphabetToken, BadLengthToken, BadPayloadToken}

\* the token of text t, as a browser with the codec writes it
TokenOf(t) == toBase64Url(Deflate(TextEncode(t)))

\* fragments the user can open or navigate to
NavTokens == {TokenOf(t) : t \in Texts} \cup ForeignTokens

\* the texts and fragments of the model; the codec is applied to each of them
\* once, and the results are looked up from then on
EncodedTexts == [t \in Texts \cup {DefaultDoc} |-> TokenOf(t)]
DecodedTokens ==
  [tok \in NavTokens \cup {<<>>, TokenOf(DefaultDoc)} |-> fromBase64Url(tok)]

\* toBase64Url(compressed bytes of string)
EncodeText(string) ==
  IF string \in DOMAIN EncodedTexts
  THEN EncodedTexts[string]
  ELSE toBase64Url(Deflate(TextEncode(string)))

\* fromBase64Url(b64)
DecodeToken(b64) ==
  IF b64 \in DOMAIN DecodedTokens
  THEN DecodedTokens[b64]
  ELSE fromBase64Url(b64)

VARIABLES
  codecAvailable,  \* the runtime has CompressionStream / DecompressionStream
  pc,              \* "boot" | "loading" (init awaits decompress) | "running"
  initToken,       \* the fragment init() handed to decompress
  doc,             \* view.state.doc.toString()
  cache,           \* localStorage["markdown-content"]: <<>> absent, <<t>> text t
  hash,            \* location.hash without '#': <<>> when the link has no token
  title,           \* document.title
  saveTimer,       \* window.saveTimer: 0 undefined, else a timer id
  timers,          \* live setTimeout entries: [id, content]
  nextId,          \* last timer id handed out by setTimeout
  commits,         \* timer callbacks suspended at `await compress(content)`
  hashEvents,      \* hashchange events queued and not yet dispatched
  navs,            \* hashchange handlers suspended at `await decompress(...)`
  composing,       \* an input-method composition is open in the browser
  \* history of the run, read by the properties only
  bursts,          \* bursts of change notifications begun since page load
  fires,           \* timer callbacks run since page load
  linkWrites,      \* history.replaceState calls since page load
  compEdited,      \* a change notification arrived inside the open composition
  committed,       \* a commit of this run has written the storage entry
  last,            \* the step just taken
  edits,           \* change notifications the user has produced
  navCount,        \* navigations the user has made
  sinkBy,          \* ids of the commits that last wrote the storage entry and the link
  probe            \* a codec or title function applied on its own: input and results

vars == <<codecAvailable, pc, initToken, doc, cache, hash, title, saveTimer,
          timers, nextId, commits, hashEvents, navs, composing,
          bursts, fires, linkWrites, compEdited, committed, last, edits,
          navCount, sinkBy, probe>>

\* async compress(string): rejects when CompressionStream is undefined
compress(string) ==
  IF codecAvailable
  THEN Returned(EncodeText(string))
  ELSE Thrown

\* async decompress(b64): every failure is caught and becomes ""
decompress(b64) ==
  LET byteArray == DecodeToken(b64)
      buffer    == IF byteArray.ok /\ codecAvailable
                   THEN Inflate(byteArray.val)
                   ELSE Thrown
  IN  IF buffer.ok THEN TextDecode(buffer.val) ELSE <<>>

\* decompress settles without leaving the microtask queue: fromBase64Url or
\* the stream constructor threw before anything was written to a stream
DecompressFailsEarly(b64) ==
  ~ DecodeToken(b64).ok \/ ~ codecAvailable

-----------------------------------------------------------------------------
(* Document synchronizer: init, updateDispatch and the hashchange listener *)

\* document.title = "Markdown Editor"
DefaultTitle ==
  <<"M","a","r","k","d","o","w","n"," ","E","d","i","t","o","r">>

\* the title the page is served with, before any commit sets one
HtmlTitle == <<"<title>">>

\* white space as String.prototype.trim sees it
IsSpace(c) == c \in {" ", "\n", "\t", "\r"}

RECURSIVE TrimStart(_)
TrimStart(s) ==
  IF Len(s) > 0 /\ IsSpace(s[1]) THEN TrimStart(SubSeq(s, 2, Len(s))) ELSE s

RECURSIVE TrimEnd(_)
TrimEnd(s) ==
  IF Len(s) > 0 /\ IsSpace(s[Len(s)]) THEN TrimEnd(SubSeq(s, 1, Len(s) - 1)) ELSE s

\* s.trim()
Trim(s) == TrimEnd(TrimStart(s))

\* content.split('\n')[0]
FirstLine(content) ==
  IF \E i \in 1..Len(content) : content[i] = "\n"
  THEN SubSeq(content, 1,
              (CHOOSE i \in 1..Len(content) :
                 /\ content[i] = "\n"
                 /\ \A j \in 1..(i - 1) : content[j] # "\n") - 1)
  ELSE content

\* the title taken from the first line as it is, without trim()
DocumentTitleNoTrim(content) ==
  LET firstLine == FirstLine(content)
  IN  IF Len(firstLine) >= 2 /\ firstLine[1] = "#" /\ firstLine[2] = " "
      THEN SubSeq(firstLine, 3, Len(firstLine))
      ELSE IF Len(firstLine) > 0 THEN firstLine
      ELSE DefaultTitle

\* the title a commit sets: first H1 or first line
DocumentTitle(content) ==
  LET firstLine == Trim(FirstLine(content))
  IN  IF Len(firstLine) >= 2 /\ firstLine[1] = "#" /\ firstLine[2] = " "
      THEN SubSeq(firstLine, 3, Len(firstLine))
      ELSE IF Len(firstLine) > 0 THEN firstLine
      ELSE DefaultTitle

\* the test without trim()
IsBlankNoTrim(content) == Len(content) = 0

\* the negation of `content.trim().length > 0`
IsBlank(content) == Len(Trim(content)) = 0

\* the entry written trimmed
SetItemTrimmed(content) == <<Trim(content)>>

\* localStorage.setItem("markdown-content", content)
SetItem(content) == <<content>>

\* `if (x)` for a string or null read from localStorage / decompress
Truthy(stored) == stored # <<>> /\ stored[1] # <<>>

\* the storage entry read before the fragment
InitialContentCacheFirst(hasFragment, dec, stored) ==
  IF Truthy(stored) THEN stored[1]
  ELSE IF hasFragment /\ dec # <<>> THEN dec
  ELSE DefaultDoc

\* init(): Priority: URL Hash > LocalStorage > Default.  hasFragment is
\* `location.hash.length > 1`, dec the result of decompress, stored the
\* localStorage entry
InitialContent(hasFragment, dec, stored) ==
  IF hasFragment
  THEN IF dec # <<>> THEN dec ELSE DefaultDoc
  ELSE IF Truthy(stored) THEN stored[1] ELSE DefaultDoc

\* the earlier timer left running
ClearTimeoutSkipped(ts, handle) == ts

\* the test on the handle inverted: only a null handle is cleared
ClearTimeoutInverted(ts, handle) ==
  IF handle = 0 THEN {t \in ts : t.id # handle} ELSE ts

\* if (window.saveTimer) clearTimeout(window.saveTimer)
ClearTimeout(ts, handle) ==
  IF handle # 0 THEN {t \in ts : t.id # handle} ELSE ts

\* setTimeout(callback closing over content, 500)
SetTimeout(ts, id, content) == ts \cup {[id |-> id, content |-> content]}

\* updateDispatch(view): content is read now, the save is deferred
UpdateDispatch(content) ==
  /\ timers' = SetTimeout(ClearTimeout(timers, saveTimer), nextId + 1, content)
  /\ saveTimer' = nextId + 1
  /\ nextId' = nextId + 1
  /\ bursts' = IF timers = {} THEN bursts + 1 ELSE bursts

Step(op, text) == [op |-> op, text |-> text]

\* neither sink has been written by a commit of this page load
NoSink == [cache |-> 0, link |-> 0]

\* no function is being applied on its own
NoProbe == [stage |-> "off", input |-> <<>>, token |-> <<>>, ok |-> TRUE, output |-> <<>>]

Init ==
  /\ codecAvailable \in BOOLEAN
  /\ pc = "boot"
  /\ initToken = <<>>
  /\ doc = <<>>
  /\ cache \in {<<>>} \cup {<<t>> : t \in Texts}
  /\ hash \in {<<>>} \cup NavTokens
  /\ title = HtmlTitle
  /\ saveTimer = 0
  /\ timers = {}
  /\ nextId = 0
  /\ commits = {}
  /\ hashEvents = 0
  /\ navs = {}
  /\ composing = FALSE
  /\ bursts = 0
  /\ fires = 0
  /\ linkWrites = 0
  /\ compEdited = FALSE
  /\ committed = FALSE
  /\ last = Step("none", <<>>)
  /\ edits = 0
  /\ navCount = 0
  /\ sinkBy = NoSink
  /\ probe = NoProbe

\* init() up to `await decompress(...)`, or to its end when nothing is awaited
\* for longer than a microtask
InitStart ==
  /\ pc = "boot"
  /\ IF Len(hash) >= 1 /\ ~ DecompressFailsEarly(hash)
     THEN /\ pc' = "loading"
          /\ initToken' = hash
          /\ doc' = doc
          /\ last' = Step("initStart", hash)
     ELSE /\ pc' = "running"
          /\ initToken' = <<>>
          /\ doc' = InitialContent(Len(hash) >= 1, decompress(hash), cache)
          /\ last' = Step("init", hash)
  /\ UNCHANGED <<probe, sinkBy, committed, codecAvailable, cache, hash, title, saveTimer, timers, nextId,
                 commits, hashEvents, navs, composing, bursts, fires,
                 linkWrites, compEdited, edits, navCount>>

\* init() creating the editor with its updateListener run on the first
\* document
InitFinishDispatch ==
  /\ pc = "loading"
  /\ pc' = "running"
  /\ doc' = InitialContent(TRUE, decompress(initToken), cache)
  /\ UpdateDispatch(doc')
  /\ initToken' = <<>>
  /\ last' = Step("init", initToken)
  /\ UNCHANGED <<probe, sinkBy, committed, codecAvailable, cache, hash, title,
                 commits, hashEvents, navs, composing, fires,
                 linkWrites, compEdited, edits, navCount>>

\* init() after `await decompress(...)`: the editor is created
InitFinish ==
  /\ pc = "loading"
  /\ pc' = "running"
  /\ doc' = InitialContent(TRUE, decompress(initToken), cache)
  /\ initToken' = <<>>
  /\ last' = Step("init", initToken)
  /\ UNCHANGED <<probe, sinkBy, committed, codecAvailable, cache, hash, title, saveTimer, timers, nextId,
                 commits, hashEvents, navs, composing, bursts, fires,
                 linkWrites, compEdited, edits, navCount>>

\* the user changes the buffer; updateListener sees docChanged
UserEdit(t) ==
  /\ pc = "running"
  /\ edits < MaxEdits
  /\ t # doc
  /\ doc' = t
  /\ UpdateDispatch(t)
  /\ compEdited' = (composing \/ compEdited)
  /\ edits' = edits + 1
  /\ last' = Step("edit", t)
  /\ UNCHANGED <<probe, sinkBy, committed, codecAvailable, pc, initToken, cache, hash, title, commits,
                 hashEvents, navs, composing, fires, linkWrites, navCount>>

\* the browser opens an input-method composition; no listener is registered
CompositionStart ==
  /\ pc = "running"
  /\ ~ composing
  /\ composing' = TRUE
  /\ compEdited' = FALSE
  /\ last' = Step("compositionStart", <<>>)
  /\ UNCHANGED <<probe, sinkBy, committed, codecAvailable, pc, initToken, doc, cache, hash, title,
                 saveTimer, timers, nextId, commits, hashEvents, navs, bursts,
                 fires, linkWrites, edits, navCount>>

\* the browser closes the composition; no listener is registered
CompositionEnd ==
  /\ pc = "running"
  /\ composing
  /\ composing' = FALSE
  /\ compEdited' = FALSE
  /\ last' = Step("compositionEnd", <<>>)
  /\ UNCHANGED <<probe, sinkBy, committed, codecAvailable, pc, initToken, doc, cache, hash, title,
                 saveTimer, timers, nextId, commits, hashEvents, navs, bursts,
                 fires, linkWrites, edits, navCount>>

\* the callback with localStorage.setItem moved after the await and so not
\* run before it: only a blank text is stored at once
TimerFireCacheLater(t) ==
  /\ pc = "running"
  /\ t \in timers
  /\ timers' = timers \ {t}
  /\ cache' = IF IsBlank(t.content) THEN SetItem(t.content) ELSE cache
  /\ committed' = TRUE
  /\ fires' = fires + 1
  /\ IF IsBlank(t.content)
     THEN /\ hash' = <<>>
          /\ linkWrites' = linkWrites + 1
          /\ title' = DocumentTitle(t.content)
          /\ commits' = commits
     ELSE /\ commits' = IF compress(t.content).ok
                        THEN commits \cup {[id |-> t.id, content |-> t.content]}
                        ELSE commits
          /\ UNCHANGED <<hash, linkWrites, title>>
  /\ last' = Step("fire", t.content)
  /\ sinkBy' = IF IsBlank(t.content)
               THEN [cache |-> t.id, link |-> t.id]
               ELSE sinkBy
  /\ UNCHANGED <<probe, codecAvailable, pc, initToken, doc, saveTimer, nextId,
                 hashEvents, navs, composing, bursts, compEdited, edits,
                 navCount>>

\* the setTimeout callback, up to `await compress(content)` or to its end
TimerFire(t) ==
  /\ pc = "running"
  /\ t \in timers
  /\ timers' = timers \ {t}
  /\ cache' = SetItem(t.content)
  /\ committed' = TRUE
  /\ fires' = fires + 1
  /\ IF IsBlank(t.content)
     THEN /\ hash' = <<>>
          /\ linkWrites' = linkWrites + 1
          /\ title' = DocumentTitle(t.content)
          /\ commits' = commits
     ELSE /\ commits' = IF compress(t.content).ok
                        THEN commits \cup {[id |-> t.id, content |-> t.content]}
                        ELSE commits
          /\ UNCHANGED <<hash, linkWrites, title>>
  /\ last' = Step("fire", t.content)
  /\ sinkBy' = IF IsBlank(t.content)
               THEN [cache |-> t.id, link |-> t.id]
               ELSE [sinkBy EXCEPT !.cache = t.id]
  /\ UNCHANGED <<probe, codecAvailable, pc, initToken, doc, saveTimer, nextId,
                 hashEvents, navs, composing, bursts, compEdited, edits,
                 navCount>>

\* the callback resuming with the buffer's text of now in place of its own
\* snapshot
CommitResumeCurrent(c) ==
  /\ pc = "running"
  /\ c \in commits
  /\ commits' = commits \ {c}
  /\ hash' = compress(doc).val
  /\ linkWrites' = linkWrites + 1
  /\ title' = DocumentTitle(doc)
  /\ last' = Step("linkWrite", c.content)
  /\ sinkBy' = [sinkBy EXCEPT !.link = c.id]
  /\ UNCHANGED <<probe, committed, codecAvailable, pc, initToken, doc, cache, saveTimer, timers,
                 nextId, hashEvents, navs, composing, bursts, fires,
                 compEdited, edits, navCount>>

\* the link written by assigning location.hash, which raises hashchange
CommitResumeViaLocation(c) ==
  /\ pc = "running"
  /\ c \in commits
  /\ commits' = commits \ {c}
  /\ hash' = compress(c.content).val
  /\ hashEvents' = IF hash' # hash THEN hashEvents + 1 ELSE hashEvents
  /\ linkWrites' = linkWrites + 1
  /\ title' = DocumentTitle(c.content)
  /\ last' = Step("linkWrite", c.content)
  /\ sinkBy' = [sinkBy EXCEPT !.link = c.id]
  /\ UNCHANGED <<probe, committed, codecAvailable, pc, initToken, doc, cache, saveTimer, timers,
                 nextId, navs, composing, bursts, fires,
                 compEdited, edits, navCount>>

\* the callback after `await compress(content)`: link and title
CommitResume(c) ==
  /\ pc = "running"
  /\ c \in commits
  /\ commits' = commits \ {c}
  /\ hash' = compress(c.content).val
  /\ linkWrites' = linkWrites + 1
  /\ title' = DocumentTitle(c.content)
  /\ last' = Step("linkWrite", c.content)
  /\ sinkBy' = [sinkBy EXCEPT !.link = c.id]
  /\ UNCHANGED <<probe, committed, codecAvailable, pc, initToken, doc, cache, saveTimer, timers,
                 nextId, hashEvents, navs, composing, bursts, fires,
                 compEdited, edits, navCount>>

\* the user navigates to another fragment of the page (back/forward, a pasted
\* link); the listener exists once init() has finished
Navigate(tok) ==
  /\ pc \in {"loading", "running"}
  /\ navCount < MaxNavs
  /\ tok # hash
  /\ hash' = tok
  /\ hashEvents' = IF pc = "running" THEN hashEvents + 1 ELSE hashEvents
  /\ navCount' = navCount + 1
  /\ last' = Step("navigate", tok)
  /\ UNCHANGED <<probe, sinkBy, committed, codecAvailable, pc, initToken, doc, cache, title, saveTimer,
                 timers, nextId, commits, navs, composing, bursts, fires,
                 linkWrites, compEdited, edits>>

\* the test without the check for a failed decompress
ShouldReplaceUnchecked(urlContent, current) == urlContent # current

\* the test without the comparison with the buffer
ShouldReplaceAlways(urlContent, current) == urlContent # <<>>

\* the listener's test after the await
ShouldReplace(urlContent, current) ==
  urlContent # <<>> /\ urlContent # current

\* the buffer replaced without the updateListener being run
ReconcileSilent(token) ==
  LET urlContent == decompress(token)
  IN  IF ShouldReplace(urlContent, doc)
      THEN /\ doc' = urlContent
           /\ UNCHANGED <<timers, saveTimer, nextId, bursts>>
           /\ last' = Step("navReplace", token)
      ELSE /\ UNCHANGED <<doc, timers, saveTimer, nextId, bursts>>
           /\ last' = Step("navKeep", token)

\* the hashchange listener from the result of decompress on: view.dispatch
\* runs the updateListener, which calls updateDispatch
Reconcile(token) ==
  LET urlContent == decompress(token)
  IN  IF ShouldReplace(urlContent, doc)
      THEN /\ doc' = urlContent
           /\ UpdateDispatch(urlContent)
           /\ last' = Step("navReplace", token)
      ELSE /\ UNCHANGED <<doc, timers, saveTimer, nextId, bursts>>
           /\ last' = Step("navKeep", token)

\* the hashchange listener, up to `await decompress(...)`, or to its end when
\* there is no token or decompress settles within the microtask
HashChange ==
  /\ pc = "running"
  /\ hashEvents > 0
  /\ hashEvents' = hashEvents - 1
  /\ IF Len(hash) = 0
     THEN /\ last' = Step("hashchange", <<>>)
          /\ UNCHANGED <<doc, timers, saveTimer, nextId, bursts, navs>>
     ELSE IF DecompressFailsEarly(hash)
     THEN /\ Reconcile(hash)
          /\ navs' = navs
     ELSE /\ navs' = navs \cup {[id |-> navCount - hashEvents', token |-> hash]}
          /\ last' = Step("hashchange", hash)
          /\ UNCHANGED <<doc, timers, saveTimer, nextId, bursts>>
  /\ UNCHANGED <<probe, sinkBy, codecAvailable, pc, initToken, cache, hash, title, commits,
                 composing, fires, linkWrites, compEdited, committed, edits,
                 navCount>>

\* the hashchange listener after `await decompress(...)`
HashChangeResume(n) ==
  /\ pc = "running"
  /\ n \in navs
  /\ navs' = navs \ {n}
  /\ Reconcile(n.token)
  /\ UNCHANGED <<probe, sinkBy, codecAvailable, pc, initToken, cache, hash, title, commits,
                 hashEvents, composing, fires, linkWrites, compEdited,
                 committed, edits, navCount>>

\* location.reload() on a theme change, or the user reloading: the page's
\* script state is dropped, the storage entry and the link stay
Reload ==
  /\ pc \in {"loading", "running"}
  /\ pc' = "boot"
  /\ initToken' = <<>>
  /\ doc' = <<>>
  /\ title' = HtmlTitle
  /\ saveTimer' = 0
  /\ timers' = {}
  /\ nextId' = 0
  /\ commits' = {}
  /\ hashEvents' = 0
  /\ navs' = {}
  /\ composing' = FALSE
  /\ bursts' = 0
  /\ fires' = 0
  /\ linkWrites' = 0
  /\ compEdited' = FALSE
  /\ last' = Step("reload", <<>>)
  /\ sinkBy' = NoSink
  /\ UNCHANGED <<probe, committed, codecAvailable, cache, hash, edits, navCount>>

Next ==
  \/ InitStart
  \/ InitFinish
  \/ \E t \in Texts : UserEdit(t)
  \/ CompositionStart
  \/ CompositionEnd
  \/ \E t \in timers : TimerFire(t)
  \/ \E c \in commits : CommitResume(c)
  \/ \E tok \in NavTokens \cup {<<>>} : Navigate(tok)
  \/ HashChange
  \/ \E n \in navs : HashChangeResume(n)
  \/ Reload

Spec == Init /\ [][Next]_vars

-----------------------------------------------------------------------------
(* Vocabulary of the properties *)

\* the text has no character other than white space
WhitespaceOnly(text) == \A i \in 1..Len(text) : text[i] \in {" ", "\n", "\t", "\r"}

\* the token decodes (base64url) and decompresses (deflate-raw) in this runtime
DecodeOk(token) ==
  /\ codecAvailable
  /\ DecodeToken(token).ok
  /\ Inflate(DecodeToken(token).val).ok

\* the token is no base64url text, or its bytes are no deflate-raw stream
Malformed(token) ==
  ~ DecodeToken(token).ok \/ ~ Inflate(DecodeToken(token).val).ok

\* the text a token that decodes carries
DecodedText(token) == TextDecode(Inflate(DecodeToken(token).val).val)

\* the link agrees with the text: no token for a blank text, else a token
\* that decodes to it
LinkMatches(text) ==
  IF WhitespaceOnly(text)
  THEN hash = <<>>
  ELSE DecodeOk(hash) /\ DecodedText(hash) = text

\* a commit of this content is suspended at its `await compress(content)`
CommitPending(content) == \E c \in commits : c.content = content

\* nothing is scheduled, suspended or queued
Quiescent ==
  /\ pc = "running"
  /\ timers = {}
  /\ commits = {}
  /\ navs = {}
  /\ hashEvents = 0

-----------------------------------------------------------------------------
(* C1: debounce coalescing *)

\* what C1 says of the timer and of the cache write: one deferred action is
\* live at most, every burst ends in exactly one timer callback, the live
\* action holds the buffer as the last notification left it, and the callback
\* writes that text to the cache
C1_OneCommitPerBurst ==
  pc = "running" =>
    /\ Cardinality(timers) <= 1
    /\ bursts = fires + Cardinality(timers)
    /\ \A t \in timers : t.content = doc
    /\ last.op = "fire" => cache = <<doc>> /\ last.text = doc
    /\ last.op = "linkWrite" => DecodeOk(hash) /\ DecodedText(hash) = last.text

\* C1 as stated: every burst of change notifications ends in exactly one
\* commit, which makes one cache write and one link write, of the buffer
\* content after the last edit of the burst
C1_Original ==
  /\ C1_OneCommitPerBurst
  /\ pc = "running" => linkWrites + Cardinality(commits) = fires

\* C1 as amended: every burst ends in exactly one commit, which makes one cache
\* write of the buffer content after the last edit of the burst, and one link
\* write of it unless the runtime has no compression and the text is not blank
\* (then the commit stops after the cache write)
C1_DebounceCoalescing ==
  /\ C1_OneCommitPerBurst
  /\ pc = "running" =>
       /\ linkWrites + Cardinality(commits) <= fires
       /\ codecAvailable => linkWrites + Cardinality(commits) = fires

\* a burst of two notifications has ended in one commit, link write included
C1_Witness ==
  /\ pc = "running"
  /\ codecAvailable
  /\ edits = 2 /\ navCount = 0
  /\ bursts = 1 /\ fires = 1 /\ linkWrites = 1
  /\ last.op = "linkWrite" /\ last.text = doc
  /\ cache = <<doc>>

-----------------------------------------------------------------------------
(* C2: at startup a link that decodes wins over the cache *)

\* init() has just finished; last.text is the fragment it read
Started == pc = "running" /\ last.op = "init"

\* C2 as stated: when the fragment at startup decodes to a text t, the
\* initial document is t, whatever the cache holds
C2_Original ==
  (Started /\ DecodeOk(last.text)) => doc = DecodedText(last.text)

\* C2 as amended: when the fragment at startup decodes to a non-empty text t,
\* the initial document is t, whatever the cache holds
C2_LinkWins ==
  (Started /\ DecodeOk(last.text) /\ DecodedText(last.text) # <<>>)
    => doc = DecodedText(last.text)

\* startup from a link that carries "a" while the cache holds another text
C2_Witness ==
  /\ Started
  /\ DecodeOk(last.text)
  /\ DecodedText(last.text) = <<"a">>
  /\ cache = << <<" ", "b">> >>
  /\ doc = <<"a">>

-----------------------------------------------------------------------------
(* C3: at startup a link that fails to decode falls back to the cache *)

\* C3 as stated: when a fragment is present at startup, fails to decode or
\* decompress, and the cache holds a non-empty text c, the initial document
\* is c
C3_FallbackToCache ==
  (Started /\ Len(last.text) >= 1 /\ Malformed(last.text) /\ Truthy(cache))
    => doc = cache[1]

-----------------------------------------------------------------------------
(* C4: composition suppression *)

\* C4 as stated: while a composition is open, no commit runs for the edits
\* made inside it
C4_CompositionSuppression ==
  (composing /\ compEdited) => last.op \notin {"fire", "linkWrite"}

-----------------------------------------------------------------------------
(* C5: navigation non-reentrancy *)

\* C5 as stated: the hashchange handler's replacement of the buffer schedules
\* no deferred action
C5_NavigationNonReentrant ==
  [][last'.op = "navReplace" => timers' \subseteq timers]_vars

-----------------------------------------------------------------------------
(* C6: a malformed navigation token is harmless *)

\* C6: a step of the hashchange handler on a token that fails base64url
\* decoding or decompression leaves the buffer, the cache and the timer as
\* they were
C6_MalformedTokenHarmless ==
  [][(/\ last'.op \in {"hashchange", "navKeep", "navReplace"}
      /\ Len(last'.text) >= 1
      /\ ~ DecodeOk(last'.text))
     => UNCHANGED <<doc, cache, saveTimer, timers>>]_vars

\* the handler has finished on a token whose payload does not decompress,
\* with an edited buffer and a deferred action pending
C6_Witness ==
  /\ last.op = "navKeep"
  /\ last.text = BadPayloadToken
  /\ codecAvailable
  /\ doc = <<" ", "b">>
  /\ timers # {}

-----------------------------------------------------------------------------
(* C7: empty-content policy *)

\* what C7 says of a blank snapshot: the commit leaves the link without a
\* token and never calls compress
C7_BlankClearsLink ==
  /\ (last.op = "fire" /\ WhitespaceOnly(last.text))
       => hash = <<>> /\ ~ CommitPending(last.text)
  /\ \A c \in commits : ~ WhitespaceOnly(c.content)
  /\ last.op = "linkWrite" =>
       /\ ~ WhitespaceOnly(last.text)
       /\ DecodeOk(hash) /\ DecodedText(hash) = last.text

\* C7 as stated: a commit of a blank snapshot clears the link without calling
\* compress; a commit of any other snapshot calls compress and the link
\* comes to carry its token
C7_Original ==
  /\ C7_BlankClearsLink
  /\ (last.op = "fire" /\ ~ WhitespaceOnly(last.text)) => CommitPending(last.text)

\* C7 as amended: as stated, the link coming to carry the token only when the
\* runtime has compression
C7_EmptyContentPolicy ==
  /\ C7_BlankClearsLink
  /\ (last.op = "fire" /\ ~ WhitespaceOnly(last.text) /\ codecAvailable)
       => CommitPending(last.text)

\* a whitespace-only snapshot has been committed over a link that carried a
\* token: the cache holds it, the link has no token, nothing is suspended
C7_Witness ==
  /\ last.op = "fire"
  /\ last.text = <<" ">>
  /\ cache = << <<" ">> >>
  /\ hash = <<>>
  /\ commits = {}
  /\ linkWrites = 2

-----------------------------------------------------------------------------
(* C8: the cache holds the raw snapshot *)

\* C8: a commit overwrites the cache entry with the committed snapshot as it
\* is, and a startup with no fragment on an entry equal to the empty string
\* loads the built-in default
C8_CacheHoldsRawSnapshot ==
  /\ last.op = "fire" => cache = <<last.text>> /\ last.text = doc
  /\ (Started /\ Len(last.text) = 0 /\ cache = << <<>> >>) => doc = DefaultDoc

\* the empty document was committed, and the next startup, with no fragment,
\* has loaded the default
C8_Witness ==
  /\ Started
  /\ committed
  /\ Len(last.text) = 0
  /\ cache = << <<>> >>
  /\ doc = DefaultDoc

-----------------------------------------------------------------------------
(* C9: at most one commit in flight *)

\* C9 as stated: at most one commit is between its timer callback and its
\* link write, and no timer callback runs while an earlier commit is suspended
C9_AtMostOneInFlight ==
  /\ Cardinality(commits) <= 1
  /\ last.op = "fire" => \A c \in commits : c.content = last.text

-----------------------------------------------------------------------------
(* C10: eventual consistency of buffer, cache and link *)

\* C10 as stated, for the runs it covers that hold edits and no navigation:
\* once an edit was committed and nothing is scheduled, suspended or queued,
\* with compression available, the cache equals the buffer and the link
\* decodes to the buffer (or has no token when the buffer is blank)
C10_EventualConsistency ==
  (Quiescent /\ codecAvailable /\ navCount = 0 /\ fires >= 1)
    => cache = <<doc>> /\ LinkMatches(doc)

-----------------------------------------------------------------------------
(* The token codec on its own: a byte sequence is encoded, the token decoded *)

\* byte values whose sextets reach both ends of the alphabet, '+' and '/'
\* (written '-' and '_') included
ByteSamples == {0, 97, 251, 255}

ByteSeqs == UNION {[1..n -> ByteSamples] : n \in 0..MaxBytes}

\* the synchronizer does not run
SyncOff ==
  /\ codecAvailable = TRUE
  /\ pc = "boot"
  /\ initToken = <<>>
  /\ doc = <<>>
  /\ cache = <<>>
  /\ hash = <<>>
  /\ title = HtmlTitle
  /\ saveTimer = 0
  /\ timers = {}
  /\ nextId = 0
  /\ commits = {}
  /\ hashEvents = 0
  /\ navs = {}
  /\ composing = FALSE
  /\ bursts = 0
  /\ fires = 0
  /\ linkWrites = 0
  /\ compEdited = FALSE
  /\ committed = FALSE
  /\ last = Step("none", <<>>)
  /\ edits = 0
  /\ navCount = 0
  /\ sinkBy = NoSink

syncVars == <<codecAvailable, pc, initToken, doc, cache, hash, title, saveTimer,
              timers, nextId, commits, hashEvents, navs, composing, bursts,
              fires, linkWrites, compEdited, committed, last, edits, navCount,
              sinkBy>>

CodecInit ==
  /\ SyncOff
  /\ \E b \in ByteSeqs :
       probe = [stage |-> "input", input |-> b, token |-> <<>>, ok |-> TRUE,
                output |-> <<>>]

\* toBase64Url(u8)
Encode ==
  /\ probe.stage = "input"
  /\ probe' = [probe EXCEPT !.stage = "encoded", !.token = toBase64Url(probe.input)]
  /\ UNCHANGED syncVars

\* fromBase64Url(str) on the token just produced
Decode ==
  /\ probe.stage = "encoded"
  /\ LET bytes == fromBase64Url(probe.token)
     IN  probe' = [probe EXCEPT !.stage = "decoded", !.ok = bytes.ok,
                                !.output = bytes.val]
  /\ UNCHANGED syncVars

CodecNext == Encode \/ Decode

CodecSpec == CodecInit /\ [][CodecNext]_vars

-----------------------------------------------------------------------------
(* C11: byte-token round trip *)

\* C11: decoding the token of a byte sequence gives the byte sequence back,
\* for the empty sequence and for lengths 0, 1 and 2 modulo 3; the token has
\* no padding and no character outside the url-safe alphabet
C11_RoundTrip ==
  /\ probe.stage \in {"encoded", "decoded"} =>
       \A i \in 1..Len(probe.token) : probe.token[i] \notin {"=", "+", "/"}
  /\ probe.stage = "decoded" => probe.ok /\ probe.output = probe.input

\* a two-byte sequence went through a token of three characters, its padding
\* stripped, with a '_' in it, and came back
C11_Witness ==
  /\ probe.stage = "decoded"
  /\ probe.input = <<255, 255>>
  /\ Len(probe.token) = 3
  /\ probe.token[1] = "_"
  /\ probe.ok
  /\ probe.output = <<255, 255>>

-----------------------------------------------------------------------------
(* The title derivation on its own *)

\* a heading marker, the two white-space characters that matter, a letter
TitleChars == {"#", " ", "\n", "a"}

TitleTexts == UNION {[1..n -> TitleChars] : n \in 0..MaxTitleText}

\* the length past which the specification falls back to the default title;
\* it names no number, and this one is small enough for a line of the model
\* to pass it
TitleBound == 2

TitleInit ==
  /\ SyncOff
  /\ \E t \in TitleTexts :
       probe = [stage |-> "snapshot", input |-> t, token |-> <<>>, ok |-> TRUE,
                output |-> <<>>]

\* the title statements of the commit, applied to a snapshot
ComputeTitle ==
  /\ probe.stage \in {"snapshot", "titled"}
  /\ probe' = [probe EXCEPT
                 !.stage = IF probe.stage = "snapshot" THEN "titled" ELSE "retitled",
                 !.token = probe.output,
                 !.output = DocumentTitle(probe.input)]
  /\ UNCHANGED syncVars

TitleNext == ComputeTitle

TitleSpec == TitleInit /\ [][TitleNext]_vars

-----------------------------------------------------------------------------
(* C12: title derivation *)

\* the trimmed first line of the snapshot under derivation
ProbeLine == Trim(FirstLine(probe.input))

\* C12 as stated (C12_Original): the title is the trimmed first line L without its leading
\* "# " when it has one, else L when L is non-empty and within the bounded
\* length, else the fixed default; recomputing it changes nothing
C12_Original ==
  /\ probe.stage \in {"titled", "retitled"} =>
       probe.output =
         IF Len(ProbeLine) >= 2 /\ SubSeq(ProbeLine, 1, 2) = <<"#", " ">>
         THEN SubSeq(ProbeLine, 3, Len(ProbeLine))
         ELSE IF Len(ProbeLine) > 0 /\ Len(ProbeLine) <= TitleBound
         THEN ProbeLine
         ELSE DefaultTitle
  /\ probe.stage = "retitled" => probe.output = probe.token

\* C12 as amended: the title is the trimmed first line L without its leading
\* "# " when it has one, else L when L is non-empty, of whatever length, else
\* the fixed default; recomputing it changes nothing
C12_TitleDerivation ==
  /\ probe.stage \in {"titled", "retitled"} =>
       probe.output =
         IF Len(ProbeLine) >= 2 /\ SubSeq(ProbeLine, 1, 2) = <<"#", " ">>
         THEN SubSeq(ProbeLine, 3, Len(ProbeLine))
         ELSE IF Len(ProbeLine) > 0
         THEN ProbeLine
         ELSE DefaultTitle
  /\ probe.stage = "retitled" => probe.output = probe.token

\* the title of a snapshot whose trimmed first line is longer than the bound
\* was derived twice: it is that line
C12_Witness ==
  /\ probe.stage = "retitled"
  /\ probe.input = <<" ", "a", "a", "a">>
  /\ Len(ProbeLine) > TitleBound
  /\ probe.output = <<"a", "a", "a">>
  /\ probe.token = probe.output

-----------------------------------------------------------------------------
(* Failed commits and the timer slot *)

\* C13: a commit whose compression is unavailable or fails leaves the cache,
\* the link and the title as they were, and the next edit schedules a fresh
\* deferred action
C13_FailedCommitLeavesState ==
  [][ /\ (/\ last'.op = "fire"
          /\ ~ IsBlank(last'.text)
          /\ ~ compress(last'.text).ok)
        => UNCHANGED <<cache, hash, title>>
      /\ last'.op = "edit"
        => \E t \in timers' : t.id = saveTimer' /\ t.content = doc' ]_vars

\* C14: at most one deferred save action is live, and it is the one the
\* handle names: every change notification cancelled the one before it, so a
\* cancelled action is not there to fire
C14_SingleTimerSlot ==
  /\ Cardinality(timers) <= 1
  /\ \A t \in timers : t.id = saveTimer /\ t.id = nextId

\* a second change notification arrived while the first deferred action was
\* live: the first was cancelled without firing
C14_Witness ==
  /\ last.op = "edit"
  /\ nextId = 2
  /\ fires = 0
  /\ Cardinality(timers) = 1
  /\ \E t \in timers : t.id = 2

-----------------------------------------------------------------------------
(* Commits and the buffer *)

\* C15: a change notification that arrives while a commit awaits compression
\* leaves that commit as it is and schedules a deferred action of its own for
\* the newer text; the commit in flight then writes the token and the title
\* of its own snapshot and leaves the newer deferred action live
C15_InFlightCommitKeepsSnapshot ==
  [][ /\ (last'.op = "edit" /\ commits # {})
        => /\ commits' = commits
           /\ \E t \in timers' : t.id = saveTimer' /\ t.content = doc'
      /\ last'.op = "linkWrite"
        => /\ \E c \in commits :
                /\ commits' = commits \ {c}
                /\ c.content = last'.text
                /\ hash' = TokenOf(c.content)
                /\ title' = DocumentTitle(c.content)
           /\ UNCHANGED <<timers, saveTimer, doc>> ]_vars

\* a commit resumed after the user had typed something else: the link holds
\* the commit's snapshot, the newer text waits in a live deferred action
C15_Witness ==
  /\ last.op = "linkWrite"
  /\ hash = TokenOf(last.text)
  /\ doc # last.text
  /\ \E t \in timers : t.id = saveTimer /\ t.content = doc
  /\ commits = {}

\* C16: when a deferred action fires, the text it commits is the buffer's
\* text of that moment: that text goes to the cache, and it is the snapshot
\* whose token the link gets (or the link is cleared when it is blank),
\* whatever edits and navigation-driven replacements came before
C16_CommitUsesCurrentSnapshot ==
  [][ last'.op = "fire"
      => /\ doc' = doc
         /\ last'.text = doc
         /\ cache' = <<doc>>
         /\ IsBlank(doc) => hash' = <<>> /\ commits' = commits
         /\ (~ IsBlank(doc) /\ codecAvailable)
              => \E c \in commits' : c \notin commits /\ c.content = doc ]_vars

\* the deferred action scheduled by a navigation-driven replacement fired, no
\* user edit before it; its commit is in flight
C16_Witness ==
  /\ last.op = "fire"
  /\ edits = 0
  /\ navCount = 1
  /\ nextId = 1
  /\ doc = <<"a">>
  /\ cache = <<doc>>
  /\ \E c \in commits : c.content = doc

\* C17: when the hashchange listener completes for a token that decompresses
\* to a non-empty text u, the buffer is u; when u was the buffer's text
\* already nothing is dispatched: no replacement, no change notification, no
\* deferred action
C17_NavigationReconciliation ==
  [][ (/\ last'.op \in {"navReplace", "navKeep"}
       /\ DecodeOk(last'.text)
       /\ DecodedText(last'.text) # <<>>)
      => /\ doc' = DecodedText(last'.text)
         /\ DecodedText(last'.text) # doc => last'.op = "navReplace"
         /\ DecodedText(last'.text) = doc
              => /\ last'.op = "navKeep"
                 /\ UNCHANGED <<doc, timers, saveTimer, nextId, bursts>> ]_vars

\* the listener completed for a token of the text the buffer already held:
\* nothing was scheduled
C17_Witness ==
  /\ last.op = "navKeep"
  /\ DecodeOk(last.text)
  /\ DecodedText(last.text) = <<"a">>
  /\ doc = <<"a">>
  /\ timers = {}
  /\ nextId = 0

-----------------------------------------------------------------------------
(* Quiescence *)

\* a task the event loop has ready to run: init(), a timer callback, the
\* continuation of an await that has settled, a queued hashchange event
EventLoopTask ==
  \/ InitStart
  \/ InitFinish
  \/ \E t \in timers : TimerFire(t)
  \/ \E c \in commits : CommitResume(c)
  \/ HashChange
  \/ \E n \in navs : HashChangeResume(n)

\* the event loop does not stay idle while a task is ready
FairSpec == Spec /\ WF_vars(EventLoopTask)

\* C18: once the edits and the navigation events have stopped, the program
\* comes to have no deferred action pending and no commit in flight, and stays
\* so; a commit's steps raise no navigation event, so there are never more
\* commits than change notifications, and never more change notifications
\* than edits and navigation events
C18_Quiescence ==
  /\ <>[](timers = {} /\ commits = {})
  /\ [][last'.op \in {"fire", "linkWrite"} => UNCHANGED <<hashEvents, navs>>]_vars
  /\ [](fires <= nextId /\ nextId <= edits + navCount)

\* one navigation event and no edit: the one commit that followed it is
\* complete and nothing is left to run
C18_Witness ==
  /\ Quiescent
  /\ last.op = "linkWrite"
  /\ edits = 0
  /\ navCount = 1
  /\ fires = 1
  /\ linkWrites = 1
  /\ LinkMatches(doc)

-----------------------------------------------------------------------------
(* Order of the sinks *)

\* C19: the commit that last wrote the link is never a later one than the
\* commit that last wrote the storage entry, and a commit suspended at its
\* await has written the storage entry already, whether one commit or several
\* are in flight: within a commit the cache write precedes the link write
C19_CacheNotBehindLink ==
  /\ sinkBy.link <= sinkBy.cache
  /\ \A c \in commits : 1 <= c.id /\ c.id <= sinkBy.cache

\* two commits overlapped: the later one has written the storage entry, the
\* earlier one has just written the link
C19_Witness ==
  /\ last.op = "linkWrite"
  /\ sinkBy.link = 1
  /\ sinkBy.cache = 2
  /\ commits # {}
  /\ cache = <<doc>>

-----------------------------------------------------------------------------
(* Startup *)

\* C20: loading the first document, from the link, the storage entry or the
\* default, schedules no deferred action and writes neither the storage entry
\* nor the link; the storage entry changes only in a commit, and a commit
\* comes only after a change notification of this page load
C20_StartupWritesNothing ==
  [][ /\ last'.op \in {"initStart", "init"}
        => /\ UNCHANGED <<cache, hash, timers, saveTimer, nextId, commits>>
           /\ timers' = {}
           /\ commits' = {}
      /\ cache' # cache => last'.op = "fire" /\ nextId >= 1 ]_vars

\* a shared link was opened where another document was stored: the buffer
\* shows the link's text, the stored document is still there and nothing is
\* scheduled
C20_Witness ==
  /\ Started
  /\ DecodeOk(hash)
  /\ doc = DecodedText(hash)
  /\ doc = <<"a">>
  /\ cache = << <<" ", "b">> >>
  /\ timers = {}
  /\ commits = {}
  /\ nextId = 0

====
